---- MODULE Spec2Model ----
(***************************************************************************)
(* micro-adapton-rs (src/src/lib.rs): a Graph of memoised, dependency      *)
(* tracked thunks.  The model follows one synchronous client of a Graph:   *)
(* it creates nodes, calls Graph::compute and Graph::update_aref, and the  *)
(* thunks it installed run step by step (Handle::add_edge,                 *)
(* Handle::compute) on an explicit call stack.  A Rust panic (unwrap on    *)
(* None, RefCell double borrow, index out of bounds) is the absorbing      *)
(* state fault = TRUE.                                                     *)
(*                                                                         *)
(* f64 values and arguments are fixed-point integers in units of 1/Scale,  *)
(* so 1.4 is 14 and 22.0 is 220.                                           *)
(***************************************************************************)
EXTENDS Integers, Sequences, FiniteSets, TLC

\* f64 numbers are modelled in tenths.
Scale == 10

\* Integer parts of the arguments the clients pass are drawn from -MaxArg..MaxArg.
MaxArg == 2

\* Option<f64>: Some(v) and None.
Some(v) == <<v>>
None == <<>>

\* A key that keeps the f64 as it is (no conversion).
AsU64_Exact(f) == f

\* `f as u64` (lib.rs:109): the fraction is dropped and the result saturates
\* at the ends of the u64 range, so every negative number becomes 0.  (The
\* upper end, u64::MAX, is beyond every argument the clients below pass.)
AsU64(f) == IF f <= 0 THEN 0 ELSE f \div Scale

\* The memo key of an argument vector (lib.rs:109).
Key(args) == [i \in 1..Len(args) |-> AsU64(args[i])]

\* An empty HashMap / HashSet.
EmptyMap == [k \in {} |-> 0]

----------------------------------------------------------------------------
(* Thunks.  A Thunk is a closure Fn(&mut Handle) -> f64; the model keeps a  *)
(* closure as a record naming its body (fn), the node ids it captured (d)   *)
(* and the number it captured (v).                                          *)

Const(v)      == [fn |-> "const", d |-> <<>>, v |-> v]
Sub(a, b)     == [fn |-> "sub", d |-> <<a, b>>, v |-> 0]
Add(a, b)     == [fn |-> "add", d |-> <<a, b>>, v |-> 0]
Div3(a, b, c) == [fn |-> "div3", d |-> <<a, b, c>>, v |-> 0]
Rd(a)         == [fn |-> "rd", d |-> <<a>>, v |-> 0]
ArgPlus(a)    == [fn |-> "arg", d |-> <<a>>, v |-> 0]
Decl(a, v)    == [fn |-> "decl", d |-> <<a>>, v |-> v]
Sel(a, b)     == [fn |-> "sel", d |-> <<a, b>>, v |-> 0]
Peek(a, v)    == [fn |-> "peek", d |-> <<a>>, v |-> v]
Rec(a)        == [fn |-> "rec", d |-> <<a>>, v |-> 0]
Twice(a)      == [fn |-> "twice", d |-> <<a>>, v |-> 0]

\* The bodies, as Rust closures over the captured ids a, b, c and number v:
\*   const: move |_| v                                        (lib.rs:31, 43)
\*   sub  : |h| { h.add_edge(a); h.add_edge(b);
\*                h.compute(a, &[]).unwrap() - h.compute(b, &[]).unwrap() }
\*                                                           (lib.rs:157-161)
\*   add  : the same with +                                   (lib.rs:163-167)
\*   div3 : add_edge a, b, c; (a + b + c) / h.args[0]         (lib.rs:169-177)
\*   rd   : |h| { h.add_edge(a); h.compute(a, &[]).unwrap() }
\*   arg  : |h| { h.add_edge(a); h.compute(a, &[]).unwrap() + h.args[0] }
\*   decl : |h| { h.add_edge(a); v }
\*   sel  : |h| if h.args[0] < 2.0 { rd a } else { rd b }
\*   peek : |h| match h.compute(a, &[]) { Some(x) => x + 1.0, None => v }
\*   rec  : |h| if h.args[0] >= 2.0
\*              { h.args[0] + h.compute(a, &[1.0]).unwrap() } else { h.args[0] }
\*   twice: |h| { h.add_edge(a); h.add_edge(a); h.compute(a, &[]).unwrap() }
\*
\* The calls a thunk body makes on its Handle, in program order.
\*   edge : h.add_edge(id)
\*   get  : h.compute(id, args), followed by .unwrap() when unwrap is TRUE
\*   index: h.args[0] on an empty slice (a panic)
E(id) == [op |-> "edge", id |-> id, args |-> <<>>, unwrap |-> FALSE]
G(id) == [op |-> "get", id |-> id, args |-> <<>>, unwrap |-> TRUE]
GTry(id) == [op |-> "get", id |-> id, args |-> <<>>, unwrap |-> FALSE]
GWith(id, args) == [op |-> "get", id |-> id, args |-> args, unwrap |-> TRUE]
IndexPanic == [op |-> "index", id |-> 0, args |-> <<>>, unwrap |-> FALSE]

Arg0(args) == IF Len(args) = 0 THEN <<IndexPanic>> ELSE <<>>

Ops(th, args) ==
    CASE th.fn = "const" -> <<>>
      [] th.fn \in {"sub", "add"} ->
            <<E(th.d[1]), E(th.d[2]), G(th.d[1]), G(th.d[2])>>
      [] th.fn = "div3" ->
            <<E(th.d[1]), E(th.d[2]), E(th.d[3]),
              G(th.d[1]), G(th.d[2]), G(th.d[3])>> \o Arg0(args)
      [] th.fn = "rd" -> <<E(th.d[1]), G(th.d[1])>>
      [] th.fn = "arg" -> <<E(th.d[1]), G(th.d[1])>> \o Arg0(args)
      [] th.fn = "decl" -> <<E(th.d[1])>>
      [] th.fn = "sel" ->
            IF Len(args) = 0 THEN <<IndexPanic>>
            ELSE IF args[1] < 2 * Scale THEN <<E(th.d[1]), G(th.d[1])>>
            ELSE <<E(th.d[2]), G(th.d[2])>>
      [] th.fn = "peek" -> <<GTry(th.d[1])>>
      [] th.fn = "rec" ->
            IF Len(args) = 0 THEN <<IndexPanic>>
            ELSE IF args[1] >= 2 * Scale THEN <<GWith(th.d[1], <<Scale>>)>>
            ELSE <<>>
      [] th.fn = "twice" -> <<E(th.d[1]), E(th.d[1]), G(th.d[1])>>

\* f64 division of fixed-point numbers (exact on the arguments the clients use).
Div(x, y) == (x * Scale) \div y

\* The f64 a thunk body returns, from the Options its h.compute calls gave.
Result(th, args, vals) ==
    CASE th.fn = "const" -> th.v
      [] th.fn = "sub" -> vals[1][1] - vals[2][1]
      [] th.fn = "add" -> vals[1][1] + vals[2][1]
      [] th.fn = "div3" -> Div(vals[1][1] + vals[2][1] + vals[3][1], args[1])
      [] th.fn = "rd" -> vals[1][1]
      [] th.fn = "arg" -> vals[1][1] + args[1]
      [] th.fn = "decl" -> th.v
      [] th.fn = "sel" -> vals[1][1]
      [] th.fn = "peek" -> IF vals[1] = None THEN th.v ELSE vals[1][1] + Scale
      [] th.fn = "rec" -> IF Len(vals) = 0 THEN args[1] ELSE args[1] + vals[1][1]
      [] th.fn = "twice" -> vals[1][1]

----------------------------------------------------------------------------
(* Clients: the programs that drive a Graph.  A client creates its nodes in *)
(* order (node i gets thunks[i+1]) and may call compute and update_aref     *)
(* with the listed inputs, in any order and any number of times.            *)

IntArgs == {<<a * Scale>> : a \in (0 - MaxArg)..MaxArg}

Clients ==
    [ it_works |->
        [ thunks  |-> <<Const(80), Const(100), Const(20),
                        Sub(1, 0), Add(2, 0), Div3(1, 3, 4)>>,
          calls   |-> {<<4, <<>>>>, <<5, <<10>>>>, <<5, <<20>>>>},
          updates |-> {<<1, 60>>} ],
      keys |->
        [ thunks  |-> <<Const(10), ArgPlus(0)>>,
          calls   |-> ({1} \X (IntArgs \cup {<<>>, <<10, 10>>}))
                      \cup ({0} \X {<<>>, <<0 - 10>>}),
          updates |-> {<<0, 20>>} ],
      fractions |->
        [ thunks  |-> <<Const(10), ArgPlus(0)>>,
          calls   |-> ({1} \X {<<10>>, <<14>>, <<19>>, <<20>>})
                      \cup ({0} \X {<<>>, <<14>>}),
          updates |-> {<<0, 20>>} ],
      sel |->
        [ thunks  |-> <<Const(10), Const(20), Sel(0, 1)>>,
          calls   |-> {<<2, <<10>>>>, <<2, <<20>>>>},
          updates |-> {<<0, 30>>, <<1, 40>>} ],
      diamond |->
        [ thunks  |-> <<Const(10), Rd(0), Rd(0), Add(1, 2)>>,
          calls   |-> {<<3, <<>>>>, <<1, <<>>>>},
          updates |-> {<<0, 20>>, <<1, 30>>} ],
      decl |->
        [ thunks  |-> <<Const(10), Decl(0, 50), Rd(1)>>,
          calls   |-> {<<0, <<>>>>, <<1, <<>>>>, <<2, <<>>>>},
          updates |-> {<<0, 20>>} ],
      cycle |->
        [ thunks  |-> <<Peek(1, 70), Peek(0, 70)>>,
          calls   |-> {<<0, <<>>>>, <<1, <<>>>>},
          updates |-> {<<1, 20>>} ],
      self |->
        [ thunks  |-> <<Peek(0, 70)>>,
          calls   |-> {<<0, <<>>>>},
          updates |-> {} ],
      recur |->
        [ thunks  |-> <<Rec(0)>>,
          calls   |-> {<<0, <<10>>>>, <<0, <<20>>>>},
          updates |-> {} ],
      mutual |->
        [ thunks  |-> <<Decl(1, 50), Decl(0, 50)>>,
          calls   |-> {<<0, <<>>>>, <<1, <<>>>>},
          updates |-> {<<0, 20>>} ],
      fwd |->
        [ thunks  |-> <<Rd(1), Decl(0, 50)>>,
          calls   |-> {<<0, <<>>>>, <<1, <<>>>>},
          updates |-> {<<1, 70>>} ],
      twice |->
        [ thunks  |-> <<Const(10), Twice(0)>>,
          calls   |-> {<<1, <<>>>>},
          updates |-> {<<0, 20>>} ] ]

ClientNames == DOMAIN Clients

----------------------------------------------------------------------------
VARIABLES
    client,    \* the client program driving the Graph (as tests::it_works)
    athunks,   \* Graph.athunks (lib.rs:10): slab index -> AThunk (lib.rs:87-94)
    stack,     \* activations of AThunk::compute (lib.rs:108), innermost last
    dstack,    \* activations of Graph::dirty (lib.rs:48), innermost last
    fault,     \* a panic has aborted the call tree
    op,        \* the client's call in progress, or its last one
    ret,       \* what the client's last Graph::compute returned (lib.rs:35)
    runs,      \* ids whose thunk was invoked (lib.rs:131) in this operation
    dirtied    \* ids whose memo was cleared (lib.rs:51-52) in this operation

vars == <<client, athunks, stack, dstack, fault, op, ret, runs, dirtied>>

\* A constructor whose node starts clean.
AThunkNew_Clean(id, thunk) ==
    [ id |-> id,
      thunk |-> thunk,
      result |-> EmptyMap,
      sub_computations |-> {},
      super_computations |-> {},
      clean |-> TRUE ]

\* AThunk::new (lib.rs:97-106).
AThunkNew(id, thunk) ==
    [ id |-> id,
      thunk |-> thunk,
      result |-> EmptyMap,
      sub_computations |-> {},
      super_computations |-> {},
      clean |-> FALSE ]

Op(name, id, args, val) == [name |-> name, id |-> id, args |-> args, val |-> val]

\* Graph::new (lib.rs:16-20): an empty slab.
Init ==
    /\ client \in ClientNames
    /\ athunks = EmptyMap
    /\ stack = <<>>
    /\ dstack = <<>>
    /\ fault = FALSE
    /\ op = Op("new", 0, <<>>, 0)
    /\ ret = None
    /\ runs = <<>>
    /\ dirtied = <<>>

\* No call is in progress: the client holds the Graph again.
Idle == stack = <<>> /\ dstack = <<>> /\ ~fault

\* The nodes whose RefCell is mutably borrowed: one RefMut per activation of
\* AThunk::compute (lib.rs:36) and of Graph::dirty (lib.rs:49).
Borrowed ==
    {stack[i].id : i \in 1..Len(stack)} \cup {dstack[i].id : i \in 1..Len(dstack)}

\* Slab::vacant_entry().key() (lib.rs:23-24): nodes are never removed, so the
\* next key is the number of nodes.
NextKey == Cardinality(DOMAIN athunks)

Insert(g, id, t) == [k \in DOMAIN g \cup {id} |-> IF k = id THEN t ELSE g[k]]

\* A memo that holds the entry of the last key only.
MemoInsert_Single(m, key, r) == [k \in {key} |-> r]

\* HashMap::insert (lib.rs:137).
MemoInsert(m, key, r) == [k \in DOMAIN m \cup {key} |-> IF k = key THEN r ELSE m[k]]

\* Graph::new_athunk (lib.rs:22-28).
NewAthunk ==
    /\ Idle
    /\ NextKey < Len(Clients[client].thunks)
    /\ LET th == Clients[client].thunks[NextKey + 1] IN
        /\ th.fn # "const"
        /\ athunks' = Insert(athunks, NextKey, AThunkNew(NextKey, th))
        /\ op' = Op("new_athunk", NextKey, <<>>, 0)
    /\ ret' = None /\ runs' = <<>> /\ dirtied' = <<>>
    /\ UNCHANGED <<client, stack, dstack, fault>>

\* Graph::new_aref (lib.rs:30-33).
NewAref ==
    /\ Idle
    /\ NextKey < Len(Clients[client].thunks)
    /\ LET th == Clients[client].thunks[NextKey + 1] IN
        /\ th.fn = "const"
        /\ athunks' = Insert(athunks, NextKey, AThunkNew(NextKey, Const(th.v)))
        /\ op' = Op("new_aref", NextKey, <<>>, th.v)
    /\ ret' = None /\ runs' = <<>> /\ dirtied' = <<>>
    /\ UNCHANGED <<client, stack, dstack, fault>>

----------------------------------------------------------------------------
(* Graph::compute and AThunk::compute.                                      *)

\* The fast path (lib.rs:110-115): clean, and the memo holds the key.
CacheHit(t, key) == t.clean /\ key \in DOMAIN t.result

\* A RefCell that never refuses a second borrow_mut.
IsBorrowed_Never(held, id) == FALSE

\* RefCell::borrow_mut panics when the cell is already borrowed.
IsBorrowed(held, id) == id \in held

\* Slab::get(id.0) is Some (lib.rs:36, 42, 49, 71).
Present(g, id) == id \in DOMAIN g

\* A teardown that leaves the dependencies' super_computations as they are.
Unlink_Keep(g, id, done) == g

\* lib.rs:120-127 for the dependencies in `done`: self is removed from their
\* super_computations.
Unlink(g, id, done) ==
    [k \in DOMAIN g |->
        IF k \in done
        THEN [g[k] EXCEPT !.super_computations = @ \ {id}]
        ELSE g[k]]

\* A restart that keeps the dependencies of the previous evaluation.
Restart_KeepSubs(t) == [t EXCEPT !.clean = TRUE]

\* lib.rs:128-130: sub_computations.clear(); clean = true.
Restart(t) == [t EXCEPT !.sub_computations = {}, !.clean = TRUE]

\* An outcome that carries 0.0 instead of the value.
Outcome_Zero(kind, val, g) == [kind |-> kind, val |-> 0, g |-> g]

Outcome(kind, val, g) == [kind |-> kind, val |-> val, g |-> g]

\* AThunk::compute up to the call of the thunk (lib.rs:108-130), on a node that
\* the caller has borrowed.  The outcomes: "hit" (the memo value is returned),
\* "run" (edges torn down, node clean, the thunk is about to run) or "panic"
\* (a dependency's RefCell is borrowed; the loop had unlinked some of the
\* others, in the HashSet's iteration order).
AThunkCompute(g, held, id, args) ==
    LET t == g[id]
        key == Key(args)
        stuck == {s \in t.sub_computations : IsBorrowed(held \cup {id}, s)}
    IN  IF CacheHit(t, key)
        THEN {Outcome("hit", t.result[key], g)}
        ELSE IF stuck = {}
        THEN {Outcome("run", 0,
                [Unlink(g, id, t.sub_computations) EXCEPT ![id] = Restart(t)])}
        ELSE {Outcome("panic", 0, Unlink(g, id, done)) :
                done \in SUBSET (t.sub_computations \ stuck)}

\* A Graph::compute that runs the node's thunk without consulting its memo.
GraphCompute_AlwaysRun(g, held, id, args) ==
    IF id \notin DOMAIN g THEN {Outcome("none", 0, g)}
    ELSE IF id \in held \/ g[id].sub_computations \cap held # {}
    THEN {Outcome("panic", 0, g)}
    ELSE {Outcome("run", 0,
            [Unlink(g, id, g[id].sub_computations) EXCEPT ![id] = Restart(g[id])])}

\* A Graph::compute that unwraps the slab entry instead of returning None.
GraphCompute_Unwrap(g, held, id, args) ==
    IF ~Present(g, id) \/ IsBorrowed(held, id) THEN {Outcome("panic", 0, g)}
    ELSE AThunkCompute(g, held, id, args)

\* Graph::compute (lib.rs:35-37): None for an id the slab does not hold, a
\* panic when the node is already borrowed, else AThunk::compute.
GraphCompute(g, held, id, args) ==
    IF ~Present(g, id) THEN {Outcome("none", 0, g)}
    ELSE IF IsBorrowed(held, id) THEN {Outcome("panic", 0, g)}
    ELSE AThunkCompute(g, held, id, args)

Frame(id, args) ==
    [id |-> id, args |-> args, key |-> Key(args), pc |-> 1, vals |-> <<>>]

Top == stack[Len(stack)]
TopOps == Ops(athunks[Top.id].thunk, Top.args)
Pending == Top.pc <= Len(TopOps)
TopOp == TopOps[Top.pc]

\* The top activation after its pending h.compute returned v.
Resume(f, v) == [f EXCEPT !.pc = @ + 1, !.vals = Append(@, v)]

SetTop(stk, f) == [stk EXCEPT ![Len(stk)] = f]
Pop(stk) == SubSeq(stk, 1, Len(stk) - 1)

\* The client calls graph.compute(id, args) (lib.rs:35-37).
Compute(id, args) ==
    /\ Idle
    /\ <<id, args>> \in Clients[client].calls
    /\ op' = Op("compute", id, args, 0)
    /\ dirtied' = <<>>
    /\ \E o \in GraphCompute(athunks, {}, id, args) :
        /\ athunks' = o.g
        /\ fault' = (o.kind = "panic")
        /\ ret' = IF o.kind = "hit" THEN Some(o.val) ELSE None
        /\ stack' = IF o.kind = "run" THEN <<Frame(id, args)>> ELSE <<>>
        /\ runs' = IF o.kind = "run" THEN <<id>> ELSE <<>>
    /\ UNCHANGED <<client, dstack>>

\* The running thunk calls h.add_edge(sub_id) (lib.rs:68-77).
AddEdge ==
    /\ stack # <<>> /\ ~fault /\ Pending /\ TopOp.op = "edge"
    /\ LET sub == TopOp.id IN
        IF ~Present(athunks, sub) \/ IsBorrowed(Borrowed, sub)
        THEN /\ fault' = TRUE
             /\ UNCHANGED <<athunks, stack>>
        ELSE /\ athunks' =
                  [athunks EXCEPT
                     ![sub].super_computations = @ \cup {Top.id},
                     ![Top.id].sub_computations = @ \cup {sub}]
             /\ stack' = SetTop(stack, [Top EXCEPT !.pc = @ + 1])
             /\ UNCHANGED fault
    /\ UNCHANGED <<client, dstack, op, ret, runs, dirtied>>

\* The running thunk calls h.compute(id, args) (lib.rs:79-81).
HandleCompute ==
    /\ stack # <<>> /\ ~fault /\ Pending /\ TopOp.op = "get"
    /\ \E o \in GraphCompute(athunks, Borrowed, TopOp.id, TopOp.args) :
        /\ athunks' = o.g
        /\ fault' = (o.kind = "panic" \/ (o.kind = "none" /\ TopOp.unwrap))
        /\ stack' =
             CASE o.kind = "run" -> Append(stack, Frame(TopOp.id, TopOp.args))
               [] o.kind = "hit" -> SetTop(stack, Resume(Top, Some(o.val)))
               [] o.kind = "none" /\ ~TopOp.unwrap -> SetTop(stack, Resume(Top, None))
               [] OTHER -> stack
        /\ runs' = IF o.kind = "run" THEN Append(runs, TopOp.id) ELSE runs
    /\ UNCHANGED <<client, dstack, op, ret, dirtied>>

\* The running thunk reads h.args[0] of an empty slice (lib.rs:176).
IndexOutOfBounds ==
    /\ stack # <<>> /\ ~fault /\ Pending /\ TopOp.op = "index"
    /\ fault' = TRUE
    /\ UNCHANGED <<client, athunks, stack, dstack, op, ret, runs, dirtied>>

\* The thunk returns: the value is stored in the memo (lib.rs:137) and the
\* trailing self.compute(g, args) (lib.rs:141) produces what the activation
\* returns, to the calling thunk or to the client.
Return ==
    /\ stack # <<>> /\ ~fault /\ ~Pending
    /\ LET f == Top
           t == athunks[f.id]
           r == Result(t.thunk, f.args, f.vals)
           g1 == [athunks EXCEPT ![f.id].result = MemoInsert(@, f.key, r)]
       IN  \E o \in AThunkCompute(g1, Borrowed, f.id, f.args) :
            /\ athunks' = o.g
            /\ fault' = (o.kind = "panic")
            /\ runs' = IF o.kind = "run" THEN Append(runs, f.id) ELSE runs
            /\ stack' =
                 CASE o.kind = "run" -> SetTop(stack, Frame(f.id, f.args))
                   [] o.kind = "hit" /\ Len(stack) > 1 ->
                        SetTop(Pop(stack), Resume(stack[Len(stack) - 1], Some(o.val)))
                   [] o.kind = "hit" /\ Len(stack) = 1 -> <<>>
                   [] OTHER -> stack
            /\ ret' = IF o.kind = "hit" /\ Len(stack) = 1 THEN Some(o.val) ELSE ret
    /\ UNCHANGED <<client, dstack, op, dirtied>>

----------------------------------------------------------------------------
(* Graph::update_aref and Graph::dirty.                                     *)

\* A dirty() that leaves the node as it is.
Invalidate_Noop(t) == t

\* A dirty() that also forgets the node's dependencies.
Invalidate_DropEdges(t) ==
    [t EXCEPT !.clean = FALSE, !.result = EmptyMap, !.sub_computations = {}]

\* A dirty() that clears the flag and keeps the memo.
Invalidate_KeepMemo(t) == [t EXCEPT !.clean = FALSE]

\* lib.rs:51-52: clean = false; result.clear().
Invalidate(t) == [t EXCEPT !.clean = FALSE, !.result = EmptyMap]

\* A guard that lets dirty() descend into every node it reaches.
NeedsDirty_Always(t) == TRUE

\* lib.rs:50: dirty() acts on a clean node only.
NeedsDirty(t) == t.clean

\* A dirty() that does not visit the dependents.
Supers_None(g, t) == {}

\* A dirty() that walks to every node of the graph.
Supers_All(g, t) == DOMAIN g \ {t.id}

\* lib.rs:53: the nodes dirty() recurses into.
Supers(g, t) == t.super_computations

DFrame(id, todo) == [id |-> id, todo |-> todo]

\* One call dirty(id) up to its loop (lib.rs:48-53): "panic" when the node is
\* borrowed by a dirty() further up, "descend" when it was clean (it is now
\* dirty, its memo empty, and its dependents are to be visited), else "stop".
Dirty(g, held, id) ==
    IF IsBorrowed(held, id) THEN Outcome("panic", 0, g)
    ELSE IF NeedsDirty(g[id])
    THEN Outcome("descend", 0, [g EXCEPT ![id] = Invalidate(@)])
    ELSE Outcome("stop", 0, g)

\* The client calls graph.update_aref(id, val) (lib.rs:39-46): the thunk is
\* replaced, then dirty(id) starts.  An id the slab does not hold panics
\* (unwrap, lib.rs:42).
UpdateAref(id, val) ==
    /\ Idle
    /\ <<id, val>> \in Clients[client].updates
    /\ op' = Op("update_aref", id, <<>>, val)
    /\ ret' = None /\ runs' = <<>>
    /\ IF ~Present(athunks, id)
       THEN /\ fault' = TRUE
            /\ dirtied' = <<>>
            /\ UNCHANGED <<athunks, dstack>>
       ELSE LET g1 == [athunks EXCEPT ![id].thunk = Const(val)]
                o == Dirty(g1, {}, id)
            IN  /\ athunks' = o.g
                /\ fault' = (o.kind = "panic")
                /\ dstack' = IF o.kind = "descend"
                             THEN <<DFrame(id, Supers(g1, g1[id]))>> ELSE <<>>
                /\ dirtied' = IF o.kind = "descend" THEN <<id>> ELSE <<>>
    /\ UNCHANGED <<client, stack>>

DTop == dstack[Len(dstack)]

\* The loop of dirty() takes its next dependent s and calls dirty(s)
\* (lib.rs:53-55); a HashSet iterates in no particular order.
DirtyNext ==
    /\ dstack # <<>> /\ ~fault /\ DTop.todo # {}
    /\ \E s \in DTop.todo :
        LET o == Dirty(athunks, Borrowed, s)
            rest == SetTop(dstack, [DTop EXCEPT !.todo = @ \ {s}])
        IN  /\ athunks' = o.g
            /\ fault' = (o.kind = "panic")
            /\ dstack' = IF o.kind = "descend"
                         THEN Append(rest, DFrame(s, Supers(athunks, athunks[s])))
                         ELSE rest
            /\ dirtied' = IF o.kind = "descend" THEN Append(dirtied, s) ELSE dirtied
    /\ UNCHANGED <<client, stack, op, ret, runs>>

\* The loop of dirty() is over: the call returns and its RefMut is dropped.
DirtyReturn ==
    /\ dstack # <<>> /\ ~fault /\ DTop.todo = {}
    /\ dstack' = Pop(dstack)
    /\ UNCHANGED <<client, athunks, stack, fault, op, ret, runs, dirtied>>

----------------------------------------------------------------------------
AllIds ==
    UNION {{c[1] : c \in Clients[n].calls} \cup {u[1] : u \in Clients[n].updates} :
             n \in ClientNames}
AllArgs == UNION {{c[2] : c \in Clients[n].calls} : n \in ClientNames}
AllVals == UNION {{u[2] : u \in Clients[n].updates} : n \in ClientNames}

Next ==
    \/ NewAthunk
    \/ NewAref
    \/ \E id \in AllIds, args \in AllArgs : Compute(id, args)
    \/ AddEdge
    \/ HandleCompute
    \/ IndexOutOfBounds
    \/ Return
    \/ \E id \in AllIds, val \in AllVals : UpdateAref(id, val)
    \/ DirtyNext
    \/ DirtyReturn

Spec == Init /\ [][Next]_vars

\* Graph::compute and Graph::update_aref are synchronous calls (lib.rs:35-57,
\* 108-142): a call tree that has a next step takes it.
EvalStep == AddEdge \/ HandleCompute \/ IndexOutOfBounds \/ Return
DirtyStep == DirtyNext \/ DirtyReturn

FairSpec == Spec /\ WF_vars(EvalStep) /\ WF_vars(DirtyStep)

----------------------------------------------------------------------------
(* Vocabulary of the properties.                                            *)

Ids == DOMAIN athunks

\* A top-level call of the given kind has returned to the client.
Returned(name) == Idle /\ op.name = name

Count(seq, x) == Cardinality({i \in 1..Len(seq) : seq[i] = x})

\* What a thunk reads and what it declares, for one argument vector.
Reads(th, args) ==
    {Ops(th, args)[i].id : i \in {j \in 1..Len(Ops(th, args)) : Ops(th, args)[j].op = "get"}}
Declares(th, args) ==
    {Ops(th, args)[i].id : i \in {j \in 1..Len(Ops(th, args)) : Ops(th, args)[j].op = "edge"}}

\* Every installed thunk declares each node it reads.
DeclaresItsReads ==
    \A n \in Ids : \A a \in AllArgs :
        Reads(athunks[n].thunk, a) \subseteq Declares(athunks[n].thunk, a)

\* Every installed thunk reads the same nodes whatever its arguments.
ReadsIndependentOfArgs ==
    \A n \in Ids : \A a, b \in AllArgs :
        Reads(athunks[n].thunk, a) = Reads(athunks[n].thunk, b)

IntegerValued(args) == \A i \in 1..Len(args) : args[i] % Scale = 0
\* Every argument vector the client passes to compute is integer-valued (the
\* thunks themselves pass the empty vector).
IntegerCalls == \A c \in Clients[client].calls : IntegerValued(c[2])
NonNegative(args) == \A i \in 1..Len(args) : args[i] >= 0

\* The outcome of a from-scratch evaluation that does not return.
Diverges == <<0, 0>>

\* The uncached evaluation of node id with args over the thunks now installed:
\* the Option it returns, or Diverges when it panics or does not terminate.
RECURSIVE FromScratch(_, _, _, _)
FromScratch(g, id, args, fuel) ==
    IF id \notin DOMAIN g THEN None
    ELSE IF fuel = 0 THEN Diverges
    ELSE
        LET th == g[id].thunk
            ops == Ops(th, args)
            gets == SelectSeq(ops, LAMBDA o : o.op = "get")
            vals == [i \in 1..Len(gets) |->
                        FromScratch(g, gets[i].id, gets[i].args, fuel - 1)]
            bad == \/ \E i \in 1..Len(ops) : ops[i].op = "index"
                   \/ \E i \in 1..Len(ops) : ops[i].op = "edge" /\ ops[i].id \notin DOMAIN g
                   \/ \E i \in 1..Len(gets) : vals[i] = Diverges
                   \/ \E i \in 1..Len(gets) : vals[i] = None /\ gets[i].unwrap
        IN  IF bad THEN Diverges ELSE Some(Result(th, args, vals))

Scratch(id, args) == FromScratch(athunks, id, args, Cardinality(Ids) + 1)

\* The nodes reachable from the nodes of S along super_computations
\* (dependents) and along sub_computations (dependencies), S included.
RECURSIVE SuperReach(_)
SuperReach(S) ==
    LET T == S \cup UNION {athunks[n].super_computations : n \in S}
    IN  IF T = S THEN S ELSE SuperReach(T)

RECURSIVE SubReach(_)
SubReach(S) ==
    LET T == S \cup UNION {athunks[n].sub_computations : n \in S}
    IN  IF T = S THEN S ELSE SubReach(T)

NonNegativeCalls == \A c \in Clients[client].calls : NonNegative(c[2])

----------------------------------------------------------------------------
(* C1 *)

\* C1 (as claimed): when every thunk declares each node it reads and reads the
\* same nodes for every argument vector, a compute(id, args) with
\* integer-valued args that has returned gave the from-scratch value.
C1_FromScratchConsistency ==
    (Returned("compute") /\ DeclaresItsReads /\ ReadsIndependentOfArgs
        /\ IntegerCalls)
    => ret = Scratch(op.id, op.args)

----------------------------------------------------------------------------
(* C2 *)

\* C2 (as claimed): when update_aref(id, ..) has returned, id and every node
\* reachable from id along dependents edges is dirty with an empty memo.
C2_InvalidationClosure ==
    Returned("update_aref") =>
        \A n \in SuperReach({op.id}) :
            ~athunks[n].clean /\ athunks[n].result = EmptyMap

----------------------------------------------------------------------------
(* C3 *)

\* The client's next step is compute(x, a) right after update_aref(y, ..)
\* returned, and x's thunk reads and declares y for a.
AfterUpdateOfRead(x, a) ==
    /\ Returned("update_aref")
    /\ Compute(x, a)
    /\ Present(athunks, x)
    /\ op.id \in Reads(athunks[x].thunk, a) \cap Declares(athunks[x].thunk, a)

\* C3 (as claimed): for thunks that declare what they read, also when they
\* read different nodes for different arguments, the compute(x, a) that
\* follows an update of a node x reads for a invokes x's thunk again, and
\* every compute that returns gives the value the installed thunks define.
C3_NoStaleValuePerKey ==
    [][ /\ \A x \in AllIds, a \in AllArgs :
              AfterUpdateOfRead(x, a) => (runs' # <<>> /\ Head(runs') = x)
        /\ (Returned("compute") /\ DeclaresItsReads /\ IntegerCalls
              /\ NonNegativeCalls)'
           => (ret = Scratch(op.id, op.args))'
      ]_vars

----------------------------------------------------------------------------
(* C4 *)

StackIds == {stack[i].id : i \in 1..Len(stack)}

\* Node id is clean and its memo holds the key of args.
Cached(id, args) ==
    /\ id \in Ids
    /\ athunks[id].clean
    /\ Key(args) \in DOMAIN athunks[id].result

CachedValue(id, args) == athunks[id].result[Key(args)]

\* The step is a client's compute(id, args) served from the memo: the stored
\* value is returned, no thunk runs, no node changes.
ClientHitIsPure(id, args) ==
    (Compute(id, args) /\ Cached(id, args)) =>
        /\ ret' = Some(CachedValue(id, args))
        /\ runs' = <<>>
        /\ stack' = <<>>
        /\ ~fault'
        /\ athunks' = athunks

\* The step is a thunk's h.compute served from the memo: the stored value is
\* handed to the thunk, no thunk runs, no node changes.
HandleHitIsPure ==
    /\ athunks' = athunks
    /\ runs' = runs
    /\ ~fault'
    /\ stack' = SetTop(stack, Resume(Top, Some(CachedValue(TopOp.id, TopOp.args))))

\* compute(id, args) called again right after it returned runs no thunk and
\* returns the same Option.
SecondCallRunsNothing ==
    \A id \in AllIds, args \in AllArgs :
        (Returned("compute") /\ op.id = id /\ op.args = args /\ Compute(id, args)) =>
            (runs' = <<>> /\ ret' = ret /\ athunks' = athunks)

\* C4 (as claimed): every compute on a clean node whose memo holds the key,
\* from the client or from a running thunk, is a pure read of the memo.
C4_EveryCachedComputeIsPure ==
    [][ /\ \A id \in AllIds, args \in AllArgs : ClientHitIsPure(id, args)
        /\ (HandleCompute /\ Cached(TopOp.id, TopOp.args)) => HandleHitIsPure
        /\ SecondCallRunsNothing
      ]_vars

\* C4 (amended): the same, for a node that is not in the middle of its own
\* evaluation (a node that is, is borrowed: the request panics, see C10).
C4_CacheHitIsPureRead ==
    [][ /\ \A id \in AllIds, args \in AllArgs : ClientHitIsPure(id, args)
        /\ (HandleCompute /\ Cached(TopOp.id, TopOp.args) /\ TopOp.id \notin StackIds)
              => HandleHitIsPure
        /\ SecondCallRunsNothing
      ]_vars

\* A client's compute on a node with a value has just been served from the memo.
C4_Witness ==
    /\ Returned("compute") /\ op.id \in Ids
    /\ runs = <<>>
    /\ ret = Some(CachedValue(op.id, op.args))

----------------------------------------------------------------------------
(* C5 *)

UpdateStep ==
    \/ \E id \in AllIds, val \in AllVals : UpdateAref(id, val)
    \/ DirtyNext
    \/ DirtyReturn

\* C5: no step of update_aref(y, ..) changes a node z from which y is not
\* reachable along sub_computations; the compute(z, args) that follows the
\* update, for args cached on z, returns the cached value and runs no thunk.
C5_UpdateLeavesUnrelatedNodes ==
    [][ /\ UpdateStep =>
              \A z \in Ids : op'.id \notin SubReach({z}) => athunks'[z] = athunks[z]
        /\ \A z \in AllIds, args \in AllArgs :
              ( /\ Returned("update_aref") /\ Compute(z, args) /\ Cached(z, args)
                /\ op.id \notin SubReach({z}) )
              => (ret' = Some(CachedValue(z, args)) /\ runs' = <<>> /\ athunks' = athunks)
      ]_vars

\* An update that dirtied nodes has returned and a node it did not reach still
\* holds cached values.
C5_Witness ==
    /\ Returned("update_aref")
    /\ dirtied # <<>>
    /\ \E z \in Ids :
          /\ op.id \notin SubReach({z})
          /\ athunks[z].clean
          /\ athunks[z].result # EmptyMap
          /\ athunks[z].sub_computations # {}

----------------------------------------------------------------------------
(* C6 *)

\* Node n was created by new_aref.
IsAref(n) == n \in Ids /\ Clients[client].thunks[n + 1].fn = "const"

\* C6: a compute on a leaf that returned gave the leaf's current constant,
\* whatever the args; a compute on a leaf never panics; and the constant of a
\* leaf is the one of its creation until update_aref(n, w) makes it w.
C6_LeafStability ==
    [][ /\ (Returned("compute") /\ IsAref(op.id))' =>
              (ret = Some(athunks[op.id].thunk.v))'
        /\ \A n \in AllIds, args \in AllArgs :
              (Compute(n, args) /\ IsAref(n)) => ~fault'
        /\ \A n \in Ids :
              IF \E w \in AllVals : UpdateAref(n, w)
              THEN athunks'[n].thunk = Const(op'.val)
              ELSE athunks'[n].thunk = athunks[n].thunk
        /\ \A n \in Ids' \ Ids :
              IsAref(n)' => athunks'[n].thunk = Const(Clients[client].thunks[n + 1].v)
      ]_vars

\* A leaf that was updated returned its new value for a non-empty argument vector.
C6_Witness ==
    /\ Returned("compute") /\ IsAref(op.id)
    /\ op.args # <<>>
    /\ athunks[op.id].thunk.v # Clients[client].thunks[op.id + 1].v
    /\ ret = Some(athunks[op.id].thunk.v)

----------------------------------------------------------------------------
(* C7 *)

\* C7: a compute of an id the slab does not hold returns None, runs no thunk
\* and changes no node: from the client (ret is None, nothing is running) and
\* from a thunk (the thunk receives None; its own .unwrap() of it, if any, is
\* what panics).
C7_AbsentIdReturnsNone ==
    [][ /\ \A id \in AllIds, args \in AllArgs :
              (Compute(id, args) /\ id \notin Ids) =>
                  /\ ret' = None /\ runs' = <<>> /\ stack' = <<>> /\ ~fault'
                  /\ athunks' = athunks
        /\ (HandleCompute /\ TopOp.id \notin Ids) =>
              /\ athunks' = athunks /\ runs' = runs
              /\ IF TopOp.unwrap
                 THEN fault' /\ stack' = stack
                 ELSE ~fault' /\ stack' = SetTop(stack, Resume(Top, None))
      ]_vars

\* A running thunk holds the None its h.compute of an absent id returned.
C7_Witness ==
    /\ stack # <<>> /\ ~fault
    /\ \E i \in 1..Len(Top.vals) : Top.vals[i] = None

----------------------------------------------------------------------------
(* C8 *)

\* Every node existed and was clean when the running update started.
AllCleanAtStart == \A n \in Ids : athunks[n].clean \/ Count(dirtied, n) >= 1

\* The diamond: X = 3 depends on Y = 1 and Z = 2, both depend on W = 0.
DiamondEdges ==
    /\ client = "diamond" /\ Ids = 0..3
    /\ athunks[0].super_computations = {1, 2}
    /\ athunks[1].super_computations = {3}
    /\ athunks[2].super_computations = {3}

\* The step is a dirty(s) on a node s that is already dirty.
ReachesDirty ==
    /\ DirtyNext
    /\ \E s \in DTop.todo :
          /\ ~athunks[s].clean
          /\ s \notin Borrowed
          /\ dstack' = SetTop(dstack, [DTop EXCEPT !.todo = @ \ {s}])

\* C8: in one update no node is invalidated twice; an update of W in the
\* all-clean diamond invalidates W, X, Y and Z once each; a dirty() that
\* reaches a dirty node changes nothing and opens no further dirty().
C8_DirtiedAtMostOnce ==
    [][ /\ \A n \in Ids' : Count(dirtied', n) <= 1
        /\ (Returned("update_aref") /\ op.id = 0 /\ DiamondEdges /\ AllCleanAtStart)'
              => (\A n \in 0..3 : Count(dirtied, n) = 1 /\ ~athunks[n].clean)'
        /\ DirtyNext =>
              \/ /\ Len(dstack') = Len(dstack) + 1
                 /\ athunks[DTop'.id].clean /\ ~athunks'[DTop'.id].clean
                 /\ athunks'[DTop'.id].result = EmptyMap
                 /\ dirtied' = Append(dirtied, DTop'.id)
              \/ /\ Len(dstack') = Len(dstack)
                 /\ athunks' = athunks /\ dirtied' = dirtied
        /\ (DirtyNext /\ \A s \in DTop.todo : ~athunks[s].clean) =>
              (Len(dstack') = Len(dstack) /\ athunks' = athunks)
      ]_vars

\* The update of W in the all-clean diamond has returned, X reached twice.
C8_Witness ==
    /\ Returned("update_aref") /\ op.id = 0 /\ DiamondEdges
    /\ Len(dirtied) = 4

----------------------------------------------------------------------------
(* C9 *)

\* C9: a compute(id, b) that follows a returned compute(id, a) with the same
\* key returns what the first returned and runs no thunk; so on the node
\* 1 = node 0 + args[0], compute [1.9] after a compute [1.4] that ran the thunk
\* returns the value for 1.4, which is not the value for 1.9.
C9_KeyTruncationCollision ==
    [][ /\ \A id \in AllIds, a \in AllArgs, b \in AllArgs :
              ( /\ Returned("compute") /\ op.id = id /\ op.args = a /\ id \in Ids
                /\ Key(a) = Key(b) /\ Compute(id, b) )
              => (ret' = ret /\ runs' = <<>> /\ athunks' = athunks)
        /\ ( /\ client = "fractions" /\ Returned("compute")
             /\ op.id = 1 /\ op.args = <<14>> /\ runs # <<>>
             /\ Compute(1, <<19>>) )
           => /\ ret = Some(athunks[0].thunk.v + 14)
              /\ ret' = ret
              /\ ret' # Scratch(1, <<19>>)
              /\ runs' = <<>>
      ]_vars

\* compute [1.9] has returned the value of 1.4 without running the thunk.
C9_Witness ==
    /\ client = "fractions" /\ Returned("compute")
    /\ op.id = 1 /\ op.args = <<19>> /\ 1 \in Ids
    /\ runs = <<>>
    /\ ret = Some(athunks[0].thunk.v + 14)

----------------------------------------------------------------------------
(* C10 *)

\* C10: a thunk's h.compute of a node that is being evaluated (its own node
\* or one further up the call tree) panics: no activation is opened, nothing
\* is returned to the thunk, and no node is ever evaluated twice at once.
C10_CycleIsFatal ==
    [][ /\ (HandleCompute /\ TopOp.id \in StackIds) =>
              (fault' /\ stack' = stack /\ athunks' = athunks /\ ret' = ret)
        /\ \A i, j \in 1..Len(stack') : stack'[i].id = stack'[j].id => i = j
        /\ fault => fault'
      ]_vars

\* The call tree of node A, through node B, has asked for A again and panicked.
C10_Witness ==
    /\ fault /\ Len(stack) = 2
    /\ Pending /\ TopOp.op = "get"
    /\ TopOp.id = stack[1].id

----------------------------------------------------------------------------
(* C11 *)

CreateStep == NewAthunk \/ NewAref

\* Node id is as its constructor left it: dirty, no memo entry, no edge.
Fresh(id) ==
    /\ id \in Ids
    /\ ~athunks[id].clean
    /\ athunks[id].result = EmptyMap
    /\ athunks[id].sub_computations = {}
    /\ athunks[id].super_computations = {}

\* C11: new_athunk and new_aref add one node, which is dirty with an empty
\* memo and no edges, and leave every existing node as it was; the first
\* compute on such a node, from the client or from a thunk and for any args,
\* invokes its thunk.
C11_FreshNodeIsDirty ==
    [][ /\ CreateStep =>
              /\ Ids' = Ids \cup {NextKey} /\ NextKey \notin Ids
              /\ \A k \in Ids' \ Ids : Fresh(k)'
              /\ \A n \in Ids : athunks'[n] = athunks[n]
        /\ \A id \in AllIds, args \in AllArgs :
              (Compute(id, args) /\ Fresh(id)) =>
                  /\ runs' = <<id>> /\ stack' = <<Frame(id, args)>> /\ ~fault'
                  /\ athunks'[id].clean
        /\ (HandleCompute /\ Fresh(TopOp.id)) =>
              /\ runs' = Append(runs, TopOp.id) /\ ~fault'
              /\ stack' = Append(stack, Frame(TopOp.id, TopOp.args))
      ]_vars

\* A node has just been created next to a node that holds a cached value.
C11_Witness ==
    /\ (Returned("new_athunk") \/ Returned("new_aref"))
    /\ Fresh(op.id)
    /\ \E n \in Ids : athunks[n].clean /\ athunks[n].result # EmptyMap

----------------------------------------------------------------------------
(* C12 *)

\* C12: no step of update_aref invokes a thunk, opens an evaluation, makes a
\* node clean, adds a memo entry, or changes a sub_computations or
\* super_computations set; and when update_aref(id, ..) has returned, id is
\* dirty with an empty memo.
C12_UpdateEvaluatesNothing ==
    [][ /\ UpdateStep =>
              /\ runs' = <<>> /\ stack' = <<>> /\ Ids' = Ids
              /\ \A n \in Ids :
                    /\ athunks'[n].clean => athunks[n].clean
                    /\ DOMAIN athunks'[n].result \subseteq DOMAIN athunks[n].result
                    /\ athunks'[n].sub_computations = athunks[n].sub_computations
                    /\ athunks'[n].super_computations = athunks[n].super_computations
        /\ Returned("update_aref")' =>
              (~athunks[op.id].clean /\ athunks[op.id].result = EmptyMap)'
      ]_vars

\* The update of a clean node that has dependencies and dependents has
\* returned: the node is dirty and its edges are still there.
C12_Witness ==
    /\ Returned("update_aref")
    /\ dirtied # <<>> /\ Head(dirtied) = op.id
    /\ athunks[op.id].sub_computations # {}
    /\ athunks[op.id].super_computations # {}

----------------------------------------------------------------------------
(* C13 *)

\* C13 (as claimed): update_aref(id, ..) of an id the slab does not hold does
\* not panic: the call returns to the client and changes no node.
C13_UpdateOfAbsentIdIsRecoverable ==
    [][ \A id \in AllIds, val \in AllVals :
            (UpdateAref(id, val) /\ ~Present(athunks, id)) =>
                (~fault' /\ Idle' /\ athunks' = athunks)
      ]_vars

----------------------------------------------------------------------------
(* C14 *)

\* b is in a's sub_computations exactly when a is in b's super_computations.
EdgeSymmetry ==
    \A a, b \in Ids :
        b \in athunks[a].sub_computations <=> a \in athunks[b].super_computations

\* C14: whenever the client holds the Graph and no call has panicked, the
\* edges are symmetric, and every edge ends at a node of the Graph.
C14_EdgeSymmetry ==
    Idle =>
        /\ EdgeSymmetry
        /\ \A a \in Ids :
              athunks[a].sub_computations \cup athunks[a].super_computations
                  \subseteq Ids

\* Node 2 of client sel was evaluated on node 0, then again on node 1: the
\* edge to node 0 is gone on both sides, the edge to node 1 is on both sides.
C14_Witness ==
    /\ client = "sel" /\ Returned("compute") /\ Ids = 0..2
    /\ athunks[0].clean /\ athunks[0].super_computations = {}
    /\ athunks[2].sub_computations = {1}
    /\ athunks[1].super_computations = {2}

----------------------------------------------------------------------------
(* C15 *)

\* C15: in every state, also in the middle of a compute or of an update_aref,
\* a node whose clean flag is false has an empty memo.
C15_DirtyNodeHasEmptyMemo ==
    \A n \in Ids : ~athunks[n].clean => athunks[n].result = EmptyMap

\* In the middle of an update: a node has just lost its memo and a dependent
\* that dirty() has not reached yet still holds cached values.
C15_Witness ==
    /\ dstack # <<>> /\ ~fault
    /\ dirtied # <<>>
    /\ \E n \in DTop.todo : athunks[n].clean /\ athunks[n].result # EmptyMap

----------------------------------------------------------------------------
(* C16 *)

\* Node x has no dependency, and no node has x as a dependent.
NoEdgesOf(x) ==
    /\ athunks[x].sub_computations = {}
    /\ \A b \in Ids : x \notin athunks[b].super_computations

\* The edges of node x are those to the nodes in D, on both sides.
EdgesAre(x, D) ==
    /\ athunks[x].sub_computations = D
    /\ \A b \in Ids : x \in athunks[b].super_computations <=> b \in D

\* The step completes the activation on top of the stack.
Completes == Return /\ ~fault' /\ Len(stack') < Len(stack)

\* C16: a compute on a node that is not served from the memo first removes
\* every edge of the node, on both sides; each add_edge(sub) of the running
\* thunk adds the edge to sub on both sides and nothing else, and changes
\* nothing when the edge is there already; so when the evaluation completes,
\* the node's edges are exactly those its thunk declared for these args.
C16_EdgeRebuild ==
    [][ /\ \A id \in AllIds, args \in AllArgs :
              (Compute(id, args) /\ id \in Ids /\ ~Cached(id, args)) =>
                  (~fault' /\ NoEdgesOf(id)')
        /\ \A x \in Ids :
              (HandleCompute /\ TopOp.id = x /\ ~Cached(x, TopOp.args) /\ ~fault')
                  => NoEdgesOf(x)'
        /\ (AddEdge /\ ~fault') =>
              /\ athunks'[Top.id].sub_computations =
                    athunks[Top.id].sub_computations \cup {TopOp.id}
              /\ athunks'[TopOp.id].super_computations =
                    athunks[TopOp.id].super_computations \cup {Top.id}
              /\ \A n \in Ids \ {Top.id, TopOp.id} : athunks'[n] = athunks[n]
              /\ TopOp.id \in athunks[Top.id].sub_computations => athunks' = athunks
        /\ \A x \in Ids, D \in SUBSET Ids :
              (Completes /\ Top.id = x /\ D = Declares(athunks[x].thunk, Top.args))
                  => EdgesAre(x, D)'
      ]_vars

\* Node 2 of client sel, evaluated on node 0 before, has been evaluated again
\* for an argument that makes it declare node 1 only.
C16_Witness ==
    /\ client = "sel" /\ Returned("compute") /\ op.id = 2 /\ op.args = <<20>>
    /\ runs # <<>> /\ Head(runs) = 2
    /\ 0 \in Ids /\ athunks[0].clean
    /\ 2 \notin athunks[0].super_computations
    /\ athunks[2].sub_computations = {1}

\* A thunk that declares node 0 twice has completed: one edge, on both sides.
C16_DeclaredTwice ==
    /\ client = "twice" /\ Returned("compute") /\ runs # <<>>
    /\ athunks[1].sub_computations = {0}
    /\ athunks[0].super_computations = {1}

----------------------------------------------------------------------------
(* C17 *)

\* C17: a compute on a clean node for a key its memo does not hold invokes
\* the thunk and leaves the memo as it is; while a node is being evaluated its
\* memo does not change, until its thunk returns and one entry, for the key of
\* this evaluation, is written next to the others; so once compute(a, y) has
\* run the thunk of a clean node that holds an entry for another key x, a
\* compute(a, x) returns that entry without running any thunk.
C17_MemoEntriesCoexist ==
    [][ /\ \A id \in AllIds, args \in AllArgs :
              ( /\ Compute(id, args) /\ id \in Ids /\ athunks[id].clean
                /\ Key(args) \notin DOMAIN athunks[id].result )
              => /\ runs' = <<id>> /\ athunks'[id].clean
                 /\ athunks'[id].result = athunks[id].result
        /\ (AddEdge \/ HandleCompute \/ IndexOutOfBounds) =>
              \A x \in StackIds : athunks'[x].result = athunks[x].result
        /\ (Return /\ ~fault') =>
              /\ \A x \in Ids \ {Top.id} : athunks'[x].result = athunks[x].result
              /\ athunks'[Top.id].result =
                    MemoInsert(athunks[Top.id].result, Top.key,
                               Result(athunks[Top.id].thunk, Top.args, Top.vals))
              /\ \A k \in DOMAIN athunks[Top.id].result \ {Top.key} :
                    /\ k \in DOMAIN athunks'[Top.id].result
                    /\ athunks'[Top.id].result[k] = athunks[Top.id].result[k]
        /\ \A id \in AllIds, x \in AllArgs, y \in AllArgs :
              ( /\ Returned("compute") /\ op.id = id /\ op.args = y
                /\ runs # <<>> /\ id \in Ids
                /\ Key(x) # Key(y) /\ Key(x) \in DOMAIN athunks[id].result
                /\ Compute(id, x) )
              => /\ runs' = <<>> /\ athunks' = athunks
                 /\ ret' = Some(athunks[id].result[Key(x)])
      ]_vars

\* tests::it_works, lib.rs:180-183: node 5 holds the entries of [1.0] and
\* [2.0], and its last compute, for [1.0], was served from the memo.
C17_Witness ==
    /\ client = "it_works" /\ Returned("compute")
    /\ op.id = 5 /\ op.args = <<10>> /\ 5 \in Ids
    /\ runs = <<>>
    /\ DOMAIN athunks[5].result = {<<1>>, <<2>>}
    /\ ret = Some(athunks[5].result[<<1>>])

----------------------------------------------------------------------------
(* C18 *)

\* The nodes node n depends on: those recorded in its sub_computations and
\* those its thunk reads or declares for some argument vector.
DepEdges(n) ==
    (athunks[n].sub_computations
        \cup UNION {Reads(athunks[n].thunk, a) \cup Declares(athunks[n].thunk, a) :
                      a \in AllArgs}) \cap Ids

RECURSIVE DepReach(_)
DepReach(S) ==
    LET T == S \cup UNION {DepEdges(n) : n \in S}
    IN  IF T = S THEN S ELSE DepReach(T)

\* No node depends on itself, directly or through other nodes.
Acyclic == \A n \in Ids : n \notin DepReach(DepEdges(n))

\* The thunks the running compute can reach return a value: none of them
\* indexes an empty argument slice, unwraps a None or declares an absent node.
ThunksTerminate == Scratch(op.id, op.args) # Diverges

\* The thunk on top of the stack returns r: r is stored under the key, the
\* trailing self.compute returns it from the memo without invoking the thunk
\* again, and the activation ends with the node clean.
ReturnsStoredValue ==
    LET x == Top.id
        r == Result(athunks[x].thunk, Top.args, Top.vals)
    IN  /\ ~fault' /\ runs' = runs
        /\ athunks'[x].clean
        /\ athunks'[x].result = MemoInsert(athunks[x].result, Top.key, r)
        /\ athunks'[x].result[Top.key] = r
        /\ IF Len(stack) = 1
           THEN stack' = <<>> /\ ret' = Some(r)
           ELSE stack' = SetTop(Pop(stack), Resume(stack[Len(stack) - 1], Some(r)))

\* An activation is opened exactly when a thunk is invoked.
OneRunPerActivation ==
    /\ Len(stack') > Len(stack) =>
          /\ Len(stack') = Len(stack) + 1
          /\ runs' = Append(IF stack = <<>> THEN <<>> ELSE runs, Top'.id)
    /\ (stack # <<>> /\ Len(stack') <= Len(stack)) => runs' = runs
    /\ (Returned("compute") /\ runs # <<>>)' =>
          (Head(runs) = op.id /\ Count(runs, op.id) = 1)'

\* C18: every return of a thunk is followed by a trailing self.compute that
\* hits the memo and returns the value just stored; a thunk is invoked once
\* per evaluation that misses the memo; and when no node depends on itself and
\* the thunks return, a compute in progress returns a value to the client.
C18_EvaluatesOnceAndReturns ==
    /\ [][ (Return => ReturnsStoredValue) /\ OneRunPerActivation ]_vars
    /\ (stack # <<>> /\ ~fault /\ Acyclic /\ ThunksTerminate)
          ~> (Returned("compute") /\ ret # None)

\* A compute that evaluated several nodes of an acyclic graph has returned
\* the value its node now holds for the key.
C18_Witness ==
    /\ Returned("compute") /\ Acyclic /\ ThunksTerminate
    /\ Len(runs) >= 2
    /\ athunks[op.id].clean
    /\ ret = Some(athunks[op.id].result[Key(op.args)])

----------------------------------------------------------------------------
(* C19 *)

\* Every installed thunk calls h.compute on each node it declares.
EvaluatesItsDeclarations ==
    \A n \in Ids : \A a \in AllArgs :
        Declares(athunks[n].thunk, a) \subseteq Reads(athunks[n].thunk, a)

\* C19: when every installed thunk evaluates the nodes it declares, then
\* whenever the client holds the Graph, the nodes in the super_computations of
\* a dirty node are dirty.
C19_DirtyNodeHasDirtyDependents ==
    (Idle /\ EvaluatesItsDeclarations) =>
        \A b \in Ids : \A a \in athunks[b].super_computations :
            ~athunks[b].clean => (a \in Ids /\ ~athunks[a].clean)

\* An update has dirtied a chain of nodes; a clean node below them, evaluated
\* since, keeps a dirty dependent.
C19_Witness ==
    /\ Idle /\ EvaluatesItsDeclarations
    /\ \E b \in Ids :
          /\ ~athunks[b].clean /\ athunks[b].super_computations # {}
          /\ \E c \in athunks[b].sub_computations :
                athunks[c].clean /\ athunks[c].result # EmptyMap

----------------------------------------------------------------------------
(* C20 *)

\* Truncation toward zero of a number in units of 1/Scale: -1.9 gives -1.
TruncTowardZero(f) == IF f >= 0 THEN f \div Scale ELSE 0 - ((0 - f) \div Scale)

SameIntegerParts(a, b) ==
    /\ Len(a) = Len(b)
    /\ \A i \in 1..Len(a) : TruncTowardZero(a[i]) = TruncTowardZero(b[i])

\* compute(id, a) has returned and the memo of id holds its entry only.
HoldsOnlyEntryOf(id, a) ==
    /\ Returned("compute") /\ op.id = id /\ op.args = a
    /\ id \in Ids /\ athunks[id].clean
    /\ Cardinality(DOMAIN athunks[id].result) = 1

\* C20 (as claimed): when the memo of a node holds the entry of a only, a
\* compute for b is served from it exactly when a and b have the same length
\* and the same integer parts, negative ones included; so after a compute for
\* [-1.0], a compute for [-2.0] or for [0.0] invokes the thunk.
C20_KeyIsTruncationTowardZero ==
    [][ \A id \in AllIds, a \in AllArgs, b \in AllArgs :
            (HoldsOnlyEntryOf(id, a) /\ Compute(id, b)) =>
                (runs' = <<>> <=> SameIntegerParts(a, b))
      ]_vars

====
